---- MODULE Spec2Model ----
(***************************************************************************)
(* A model of the flashcard generation core of flashcard_django:           *)
(*   - build_card_key            (flashcards/ai/flashcard_gen.py)          *)
(*   - analyze_document          (flashcards/ai/analysis.py)               *)
(*   - _distribute_quota, cards_from_document                              *)
(*                               (flashcards/ai/pipeline/core.py)          *)
(*   - _ask_openai, _cards_from_chunk (flashcards/ai/flashcard_gen.py)     *)
(*   - the persistence loop of generate_deck (flashcards/views.py)         *)
(*                                                                         *)
(* Three specifications share the module:                                  *)
(*   SpecKey      build_card_key applied to bounded strings and their edits*)
(*   SpecAnalyze  analyze_document and _distribute_quota on bounded inputs *)
(*   Spec         cards_from_document driving _cards_from_chunk and the    *)
(*                external generation call                                 *)
(* Strings are sequences of one-character strings.                         *)
(***************************************************************************)
EXTENDS Integers, Sequences, FiniteSets, TLC

VARIABLES
    task,          \* which operation the run exercises
    \* ---- build_card_key runs ----
    front, back,               \* the current (front, back) pair
    prev_front, prev_back,     \* the pair before the last edit
    edit,                      \* the kind of the last edit
    \* ---- analyze_document / _distribute_quota runs ----
    a_pc,                      \* position in analyze_document
    pages,                     \* doc.page_count
    words_per_page,            \* words on each page
    toc,                       \* doc.get_toc(): entries [title, page]
    sections,                  \* toc_sections
    recommended,               \* recommended_cards
    suggested_range,           \* [lo, hi]
    prelim, delta, norm_i,     \* the normalisation loop's prelim, delta, i
    per_section_allocation,    \* the returned allocation
    dq_total, dq_parts,        \* _distribute_quota's arguments
    dq_result,                 \* and its result
    extracted,                 \* run_extraction's chunks: [page, title, words]
    \* ---- cards_from_document runs: the arguments ----
    extraction,                \* run_extraction: "ok" or "error"
    chunks,                    \* the pages of the normalised chunks
    total_cards,               \* NoTotal stands for None
    max_cards_per_chunk,
    per_page_section_quotas,   \* page -> list of [section, need]
    per_page_quotas,           \* page -> quota
    page_to_section,           \* page -> section
    section_caps,              \* section -> cap, after the auto-guess
    llm,                       \* how the generation call behaves in this run
    \* ---- cards_from_document runs: the locals ----
    pc,                        \* position in cards_from_document
    entries, idx,              \* the quota entries in loop order, the current one
    need,                      \* need / q of the current entry
    cards, seen_keys, used_per_section,
    cfc,                       \* the locals of the running _cards_from_chunk
    calls,                     \* requests sent so far, in a one-card-per-call run
    error,                     \* the exception that left cards_from_document
    result,                    \* the returned list
    \* ---- generate_deck runs ----
    gd_pc,                     \* position in generate_deck
    gd_file,                   \* request.FILES has "file"
    gd_wanted,                 \* request.POST["cards_wanted"]: [kind, n]
    allocations,               \* _parse_allocations(...): list of [title, cards]
    cards_wanted,
    planned_by_title,          \* title -> planned count
    gd_total_cards,            \* generate_deck's total_cards
    sections_plan,             \* list of [title, cards]
    gd_status,                 \* the HTTP status of the response, 0 before it
    gd_error,                  \* what made the request fail, "none" if nothing
    gd_rows,                   \* the Deck and Card rows the request created
    \* ---- build_template_from_chunks runs ----
    t_pc,                      \* position in build_template_from_chunks
    t_path,                    \* a path was passed
    t_raises,                  \* run_extraction(path) raises
    t_chunks,                  \* the document's chunks: list of [page_start, title]
    t_llm,                     \* "any" reply, or the LLM is "down"
    t_pages,                   \* pages_count
    t_extracted,               \* the local list 'extracted'
    futs,                      \* the state of each submitted future
    t_done,                    \* the futures in the order they completed
    t_next,                    \* the position of the collecting loop
    t_results,                 \* chunk index -> [kind, secs] of its future
    merged,
    template,                  \* the returned template
    t_calls,                   \* _ask_llm_sections calls made
    er_n,                      \* _even_ranges(n, total_pages): n
    er_total,                  \* total_pages
    er_out                     \* the returned list

keyVars == <<front, back, prev_front, prev_back, edit>>
anVars == <<a_pc, pages, words_per_page, toc, sections, recommended,
            suggested_range, prelim, delta, norm_i, per_section_allocation,
            dq_total, dq_parts, dq_result, extracted>>
argVars == <<extraction, chunks, total_cards, max_cards_per_chunk,
             per_page_section_quotas, per_page_quotas, page_to_section,
             section_caps, llm>>
pipeVars == <<argVars, pc, entries, idx, need, cards, seen_keys,
              used_per_section, cfc, calls, error, result>>
gdVars == <<gd_pc, gd_file, gd_wanted, allocations, cards_wanted,
            planned_by_title, gd_total_cards, sections_plan, gd_status,
            gd_error, gd_rows>>
tplVars == <<t_pc, t_path, t_raises, t_chunks, t_llm, t_pages, t_extracted, futs,
             t_done, t_next, t_results, merged, template, t_calls,
             er_n, er_total, er_out>>
restVars == <<gdVars, tplVars>>
vars == <<task, keyVars, anVars, pipeVars, restVars>>
exceptKey == <<task, anVars, pipeVars, restVars>>
exceptAnalyze == <<task, keyVars, pipeVars, restVars>>
exceptPipe == <<task, keyVars, anVars, restVars>>

(***************************************************************************)
(* Bounds of the model.                                                    *)
(***************************************************************************)
MaxKeyLen == 4      \* Len(front) + Len(back) in a build_card_key run
MaxPages == 3       \* pages of an analysed document
MaxToc == 3         \* entries of an enumerated table of contents
MaxWords == 2       \* words on one page
MaxDqTotal == 7     \* _distribute_quota: total
MaxDqParts == 10    \* _distribute_quota: parts

(***************************************************************************)
(* Characters.  "a", "b", "c" stand for [a-z0-9]; "A" is the upper case of *)
(* "a"; " " is whitespace; "?" and "|" are punctuation.                    *)
(***************************************************************************)
Alphabet == {"a", "b", "A", " ", "?"}

Lower(ch) == IF ch = "A" THEN "a" ELSE ch

\* _KEY_RE = [^a-z0-9]+ : the characters the pattern does NOT match
IsKeyChar(ch) == ch \in {"a", "b", "c"}

IsLetter(ch) == ch \in {"a", "b", "c", "A"}
IsSpace(ch)  == ch = " "
IsPunct(ch)  == ch \in {"?", "|"}

\* str.lower() left out: the string is used as it is
StrLowerSkipped(s) == s

\* str.lower()
StrLower(s) == [i \in 1..Len(s) |-> Lower(s[i])]

\* _KEY_RE.sub(" ", base): every maximal run of non-key characters becomes
\* one space
KeySub(s) ==
    LET F[i \in 0..Len(s)] ==
            IF i = 0 THEN <<>>
            ELSE IF IsKeyChar(s[i]) THEN Append(F[i-1], s[i])
            ELSE IF i > 1 /\ ~IsKeyChar(s[i-1]) THEN F[i-1]
            ELSE Append(F[i-1], " ")
    IN F[Len(s)]

\* " ".join(base.split()): the whitespace-separated words joined by single
\* spaces (leading and trailing whitespace dropped, runs collapsed)
SplitJoin(s) ==
    LET F[i \in 0..Len(s)] ==
            IF i = 0 THEN <<>>
            ELSE IF IsSpace(s[i]) THEN F[i-1]
            ELSE IF i > 1 /\ IsSpace(s[i-1]) /\ F[i-1] # <<>>
                 THEN F[i-1] \o <<" ", s[i]>>
            ELSE Append(F[i-1], s[i])
    IN F[Len(s)]

\* f"{front} || {back}"
KeyBase(f, b) == f \o <<" ", "|", "|", " ">> \o b

\* hashlib.sha1(base).hexdigest()[:40].  A SHA-1 hex digest has exactly 40
\* characters, so the slice keeps all of it; the digest is modelled as an
\* injective, never-empty encoding of its input (no SHA-1 collisions).
Sha1Hex(base) == <<"#">> \o base

build_card_key(f, b) == Sha1Hex(SplitJoin(KeySub(StrLower(KeyBase(f, b)))))

(***************************************************************************)
(* SpecKey: build_card_key on bounded strings.  A run starts from any pair *)
(* and applies one edit at a time; the pair before the edit is kept so the *)
(* two keys can be compared.                                               *)
(***************************************************************************)
RECURSIVE StrsOfLen(_)
StrsOfLen(n) ==
    IF n = 0 THEN {<<>>}
    ELSE {Append(s, ch) : s \in StrsOfLen(n - 1), ch \in Alphabet}

StrsUpTo(n) == UNION {StrsOfLen(k) : k \in 0..n}

InsertAt(s, i, ch) == SubSeq(s, 1, i - 1) \o <<ch>> \o SubSeq(s, i, Len(s))
DeleteAt(s, i)     == SubSeq(s, 1, i - 1) \o SubSeq(s, i + 1, Len(s))
ReplaceAt(s, i, ch) == [s EXCEPT ![i] = ch]

\* position i of s has a separator (non-letter) or a string end on its left
\* / on its right
SepLeft(s, i)  == i = 1 \/ ~IsLetter(s[i-1])
SepRight(s, i) == i = Len(s) \/ ~IsLetter(s[i+1])

\* the variables of the operations a run does not exercise
IdleKey ==
    /\ front = <<>> /\ back = <<>> /\ prev_front = <<>> /\ prev_back = <<>>
    /\ edit = "none"

IdleAnalyze ==
    /\ a_pc = "idle" /\ pages = 0 /\ words_per_page = <<>> /\ toc = <<>>
    /\ sections = <<>> /\ recommended = 0 /\ suggested_range = <<0, 0>>
    /\ prelim = <<>> /\ delta = 0 /\ norm_i = 0
    /\ per_section_allocation = <<>>
    /\ dq_total = 0 /\ dq_parts = 0 /\ dq_result = <<>>
    /\ extracted = <<>>

NoTotal == -1     \* total_cards = None
NoCfc == [max_cards |-> 0, want |-> 0, have_len |-> 0, batch |-> 0,
          asked |-> 0, calls |-> 0,
          got_len |-> 0, singles_left |-> 0, singles_ok |-> 0,
          page_no |-> 0, section |-> ""]

IdleDeck ==
    /\ gd_pc = "idle" /\ gd_file = FALSE /\ gd_wanted = [kind |-> "absent", n |-> 0]
    /\ allocations = <<>> /\ cards_wanted = 0 /\ planned_by_title = <<>>
    /\ gd_total_cards = 0 /\ sections_plan = <<>> /\ gd_status = 0
    /\ gd_error = "none" /\ gd_rows = 0

NoTemplate == [sections |-> <<>>, toc |-> <<>>, pages |-> 0]

IdleTemplate ==
    /\ t_pc = "idle" /\ t_path = FALSE /\ t_raises = FALSE
    /\ t_chunks = <<>> /\ t_llm = "any" /\ t_pages = 0 /\ t_extracted = <<>>
    /\ futs = <<>> /\ t_done = <<>> /\ t_next = 0 /\ t_results = <<>>
    /\ merged = <<>> /\ template = NoTemplate /\ t_calls = 0
    /\ er_n = 0 /\ er_total = 0 /\ er_out = <<>>

IdleRest == IdleDeck /\ IdleTemplate

IdlePipe ==
    /\ extraction = "ok" /\ chunks = <<>> /\ total_cards = NoTotal
    /\ max_cards_per_chunk = 0
    /\ per_page_section_quotas = <<>> /\ per_page_quotas = <<>>
    /\ page_to_section = <<>> /\ section_caps = <<>> /\ llm = "any"
    /\ pc = "idle" /\ entries = <<>> /\ idx = 0 /\ need = 0
    /\ cards = <<>> /\ seen_keys = {} /\ used_per_section = <<>>
    /\ cfc = NoCfc /\ calls = 0 /\ error = "none" /\ result = <<>>

InitKey ==
    /\ task = "key"
    /\ IdleAnalyze
    /\ IdlePipe
    /\ IdleRest
    /\ front \in StrsUpTo(MaxKeyLen)
    /\ back \in StrsUpTo(MaxKeyLen - Len(front))
    /\ prev_front = front
    /\ prev_back = back
    /\ edit = "none"

\* The edits of one string s: <<kind, s'>>
EditsOf(s) ==
    \* letter case
    {<<"case", ReplaceAt(s, i, IF s[i] = "a" THEN "A" ELSE "a")>> :
        i \in {j \in 1..Len(s) : s[j] \in {"a", "A"}}}
    \cup
    \* whitespace added in front, at the end, or next to whitespace
    {<<"space", InsertAt(s, i, " ")>> :
        i \in {j \in 1..Len(s)+1 :
                 \/ j = 1 \/ j = Len(s) + 1
                 \/ IsSpace(s[j-1]) \/ IsSpace(s[j])}}
    \cup
    \* leading, trailing or repeated whitespace removed
    {<<"space", DeleteAt(s, i)>> :
        i \in {j \in 1..Len(s) :
                 /\ IsSpace(s[j])
                 /\ \/ j = 1 \/ j = Len(s)
                    \/ IsSpace(s[j-1]) \/ IsSpace(s[j+1])}}
    \cup
    \* a punctuation mark added or removed where a separator or a string
    \* end is next to it
    {<<"punct_edge", InsertAt(s, i, "?")>> :
        i \in {j \in 1..Len(s)+1 :
                 \/ j = 1 \/ j = Len(s) + 1
                 \/ ~IsLetter(s[j-1]) \/ ~IsLetter(s[j])}}
    \cup
    {<<"punct_edge", DeleteAt(s, i)>> :
        i \in {j \in 1..Len(s) :
                 IsPunct(s[j]) /\ (SepLeft(s, j) \/ SepRight(s, j))}}
    \cup
    \* a punctuation mark added or removed between two letters of a word
    {<<"punct_inner", InsertAt(s, i, "?")>> :
        i \in {j \in 2..Len(s) : IsLetter(s[j-1]) /\ IsLetter(s[j])}}
    \cup
    {<<"punct_inner", DeleteAt(s, i)>> :
        i \in {j \in 2..Len(s)-1 :
                 IsPunct(s[j]) /\ IsLetter(s[j-1]) /\ IsLetter(s[j+1])}}
    \cup
    \* a letter replaced by another letter, added or removed
    {<<"letter", ReplaceAt(s, i, IF Lower(s[i]) = "a" THEN "b" ELSE "a")>> :
        i \in {j \in 1..Len(s) : IsLetter(s[j])}}
    \cup
    {<<"letter", InsertAt(s, i, "b")>> : i \in 1..Len(s)+1}
    \cup
    {<<"letter", DeleteAt(s, i)>> : i \in {j \in 1..Len(s) : IsLetter(s[j])}}

EditFront ==
    /\ task = "key"
    /\ \E e \in EditsOf(front) :
        /\ Len(e[2]) + Len(back) <= MaxKeyLen
        /\ prev_front' = front /\ prev_back' = back
        /\ front' = e[2] /\ back' = back
        /\ edit' = e[1]
    /\ UNCHANGED exceptKey

EditBack ==
    /\ task = "key"
    /\ \E e \in EditsOf(back) :
        /\ Len(front) + Len(e[2]) <= MaxKeyLen
        /\ prev_front' = front /\ prev_back' = back
        /\ front' = front /\ back' = e[2]
        /\ edit' = e[1]
    /\ UNCHANGED exceptKey

\* the last word of front moves to the start of back:
\* (f + " " + w, b)  ->  (f, w + " " + b)
MoveWord ==
    /\ task = "key"
    /\ \E i \in 2..Len(front)-1 :
        /\ IsSpace(front[i])
        /\ \A j \in i+1..Len(front) : IsLetter(front[j])
        /\ \A j \in 1..i-1 : IsLetter(front[j])
        /\ back # <<>>
        /\ \A j \in 1..Len(back) : IsLetter(back[j])
        /\ prev_front' = front /\ prev_back' = back
        /\ front' = SubSeq(front, 1, i - 1)
        /\ back' = SubSeq(front, i + 1, Len(front)) \o <<" ">> \o back
        /\ edit' = "move_word"
    /\ UNCHANGED exceptKey

NextKey == EditFront \/ EditBack \/ MoveWord

SpecKey == InitKey /\ [][NextKey]_vars

\* the key of the pair before the last edit, and of the pair after it
PrevKey == build_card_key(prev_front, prev_back)
CurKey  == build_card_key(front, back)

\* front or back alone, normalised the way build_card_key normalises the
\* joined string
NormField(s) == SplitJoin(KeySub(StrLower(s)))

\* C4 (as stated): an edit of front or back that changes only letter case,
\* only leading/trailing/repeated whitespace, or only punctuation (a mark
\* added or removed anywhere) leaves build_card_key unchanged.
C4_StableUnderAnyPunctuation ==
    edit \in {"case", "space", "punct_edge", "punct_inner"} => CurKey = PrevKey

\* C4 (amended): an edit of front or back that changes only letter case,
\* only leading/trailing/repeated whitespace, or adds/removes a punctuation
\* mark next to a separator or a string end leaves build_card_key
\* unchanged.
C4_FingerprintStable ==
    edit \in {"case", "space", "punct_edge"} => CurKey = PrevKey

\* C4 witness: a benign edit has changed a pair that holds a letter and a
\* punctuation mark
C4_Witness ==
    /\ edit \in {"case", "space", "punct_edge"}
    /\ <<front, back>> # <<prev_front, prev_back>>
    /\ \E i \in 1..Len(front) : IsLetter(front[i])
    /\ \E i \in 1..Len(front) : IsPunct(front[i])
    /\ back # <<>>

\* C5: two pairs whose normalised front differs or whose normalised back
\* differs have different keys; in particular moving a word across the
\* front/back boundary changes the key.
C5_FingerprintDistinct ==
    (edit # "none" /\ (\/ NormField(front) # NormField(prev_front)
                       \/ NormField(back) # NormField(prev_back)))
        => CurKey # PrevKey

(***************************************************************************)
(* analyze_document (flashcards/ai/analysis.py) and _distribute_quota      *)
(* (flashcards/ai/pipeline/core.py).                                       *)
(***************************************************************************)
MinCards == 3        \* clamp(base, 3, 30)
MaxCards == 30
WordsPerCard == 200  \* round(total_words / 200)

RECURSIVE SumSeq(_)
SumSeq(q) == IF q = <<>> THEN 0 ELSE Head(q) + SumSeq(Tail(q))

Max2(x, y) == IF x >= y THEN x ELSE y
Min2(x, y) == IF x <= y THEN x ELSE y

\* def clamp(v, lo, hi): return max(lo, min(hi, v))
clamp(v, lo, hi) == Max2(lo, Min2(hi, v))

\* Python's round(n / d) for n >= 0, d > 0: to the nearest integer, a tie
\* to the even one.  The quotient is taken exactly; the code's float product
\* remaining * share agrees with it for every input within the bounds here.
round(n, d) ==
    LET q == n \div d
        r == n % d
    IN IF 2 * r < d THEN q
       ELSE IF 2 * r > d THEN q + 1
       ELSE IF q % 2 = 0 THEN q ELSE q + 1

\* the entries of the table of contents with 1 <= page <= pages, in order
RECURSIVE FilterToc(_, _)
FilterToc(t, n) ==
    IF t = <<>> THEN <<>>
    ELSE IF Head(t).page_start >= 1 /\ Head(t).page_start <= n
         THEN <<Head(t)>> \o FilterToc(Tail(t), n)
         ELSE FilterToc(Tail(t), n)

\* flat.sort(key=page_start): list.sort is stable, equal keys keep their order
RECURSIVE SortByStart(_)
SortByStart(f) ==
    IF f = <<>> THEN <<>>
    ELSE LET rest == SortByStart(SubSeq(f, 1, Len(f) - 1))
             x == f[Len(f)]
             k == Cardinality({j \in 1..Len(rest) :
                                 rest[j].page_start <= x.page_start})
         IN SubSeq(rest, 1, k) \o <<x>> \o SubSeq(rest, k + 1, Len(rest))

\* lines 46-57: one section per flat entry, up to the next entry's start
SectionsOf(flat, n, wpp) ==
    [k \in 1..Len(flat) |->
        LET start == flat[k].page_start
            end0 == IF k + 1 <= Len(flat) THEN flat[k + 1].page_start - 1
                    ELSE n
            end == Max2(start, end0)
        IN [title |-> flat[k].title,
            page_start |-> start,
            page_end |-> end,
            words |-> IF n # 0 THEN SumSeq(SubSeq(wpp, start, end)) ELSE 0]]

\* lines 82-85 without the baseline card
PrelimOfNoBaseline(secs, remaining, total_sec_words) ==
    [k \in 1..Len(secs) |->
        round(remaining * (IF secs[k].words # 0 THEN secs[k].words ELSE 1),
              total_sec_words)]

\* lines 82-85: 1 + round(remaining * share), share = (words or 1) / total
PrelimOf(secs, remaining, total_sec_words) ==
    [k \in 1..Len(secs) |->
        1 + round(remaining * (IF secs[k].words # 0 THEN secs[k].words ELSE 1),
                  total_sec_words)]

\* def _distribute_quota(total, parts), with total spread one too far
distribute_quota_off_by_one(total, parts) ==
    IF parts <= 0 THEN <<>>
    ELSE [k \in 1..parts |->
            (total \div parts) + (IF k - 1 <= total % parts THEN 1 ELSE 0)]

\* def _distribute_quota(total, parts), with the extra cards given to the
\* last parts
distribute_quota_extra_last(total, parts) ==
    IF parts <= 0 THEN <<>>
    ELSE [k \in 1..parts |->
            (total \div parts)
              + (IF k - 1 >= parts - (total % parts) THEN 1 ELSE 0)]

\* def _distribute_quota(total, parts)
distribute_quota(total, parts) ==
    IF parts <= 0 THEN <<>>
    ELSE [k \in 1..parts |->
            (total \div parts) + (IF k - 1 < total % parts THEN 1 ELSE 0)]

TocEntries(n) == [title : 1..n, page_start : 0..MaxPages + 1]

\* tables of contents of up to MaxToc entries; entry k is titled k
SmallTocs ==
    UNION {{t \in [1..n -> TocEntries(n)] : \A k \in 1..n : t[k].title = k} :
           n \in 0..MaxToc}

\* a long table of contents: more entries than MaxCards, all on page 1 but
\* for the last, which is on page 1 or 2
LongTocs ==
    {[k \in 1..n |-> [title |-> k, page_start |-> IF k = n THEN p ELSE 1]] :
        n \in {MaxCards + 1, MaxCards + 2}, p \in {1, 2}}

IdleDistribute == dq_total = 0 /\ dq_parts = 0 /\ dq_result = <<>>

InitAnalyze ==
    /\ task = "analyze"
    /\ IdleKey
    /\ IdlePipe
    /\ IdleRest
    /\ a_pc = "sections"
    /\ pages \in 1..MaxPages
    /\ words_per_page \in [1..pages -> 0..MaxWords]
    /\ toc \in SmallTocs \cup LongTocs
    /\ sections = <<>> /\ recommended = 0 /\ suggested_range = <<0, 0>>
    /\ prelim = <<>> /\ delta = 0 /\ norm_i = 0
    /\ per_section_allocation = <<>>
    /\ IdleDistribute
    /\ extracted = <<>>

InitDistribute ==
    /\ task = "distribute"
    /\ IdleKey
    /\ IdlePipe
    /\ IdleRest
    /\ a_pc = "idle" /\ pages = 0 /\ words_per_page = <<>> /\ toc = <<>>
    /\ sections = <<>> /\ recommended = 0 /\ suggested_range = <<0, 0>>
    /\ prelim = <<>> /\ delta = 0 /\ norm_i = 0
    /\ per_section_allocation = <<>>
    /\ dq_total \in 0..MaxDqTotal
    /\ dq_parts \in 0..MaxDqParts
    /\ dq_result = <<>>
    /\ extracted = <<>>

\* lines 39-57: TOC -> sections
BuildSections ==
    /\ task = "analyze" /\ a_pc = "sections"
    /\ sections' = SectionsOf(SortByStart(FilterToc(toc, pages)), pages,
                              words_per_page)
    /\ a_pc' = "recommend"
    /\ UNCHANGED <<pages, words_per_page, toc, recommended, suggested_range,
                   prelim, delta, norm_i, per_section_allocation,
                   dq_total, dq_parts, dq_result, extracted>>
    /\ UNCHANGED exceptAnalyze

\* lines 59-89: the recommendation, the preliminary allocation and delta
Recommend ==
    /\ task = "analyze" /\ a_pc = "recommend"
    /\ LET sections_count == Len(sections)
           total_words == SumSeq(words_per_page)
           base == IF sections_count > 0 THEN sections_count
                   ELSE round(total_words, WordsPerCard)
           rec == clamp(base, MinCards, MaxCards)
           remaining == Max2(0, rec - sections_count)
           sum_words == SumSeq([k \in 1..Len(sections) |-> sections[k].words])
           total_sec_words == IF sum_words # 0 THEN sum_words
                              ELSE sections_count
           pre == PrelimOf(sections, remaining, total_sec_words)
       IN /\ recommended' = rec
          /\ suggested_range' = <<clamp(round(rec * 3, 4), MinCards, MaxCards),
                                  clamp(round(rec * 5, 4), MinCards, MaxCards)>>
          /\ IF sections_count # 0 /\ rec # 0
             THEN /\ prelim' = pre
                  /\ delta' = rec - SumSeq(pre)
                  /\ norm_i' = 0
                  /\ a_pc' = "normalize"
             ELSE /\ UNCHANGED <<prelim, delta, norm_i>>
                  /\ a_pc' = "return"
    /\ UNCHANGED <<pages, words_per_page, toc, sections,
                   per_section_allocation, dq_total, dq_parts, dq_result, extracted>>
    /\ UNCHANGED exceptAnalyze

\* line 94 without the test: a quota of 0 blocks the walk
DecrementableNever(v) == FALSE

\* line 94: if prelim[j] > 0
Decrementable(v) == v > 0

\* lines 90-97: one iteration of 'while delta != 0 and prelim'
NormalizeStep ==
    /\ task = "analyze" /\ a_pc = "normalize"
    /\ delta # 0 /\ prelim # <<>>
    /\ LET j == (norm_i % Len(prelim)) + 1
       IN IF delta > 0
          THEN /\ prelim' = [prelim EXCEPT ![j] = @ + 1]
               /\ delta' = delta - 1
          ELSE IF Decrementable(prelim[j])
               THEN /\ prelim' = [prelim EXCEPT ![j] = @ - 1]
                    /\ delta' = delta + 1
               ELSE UNCHANGED <<prelim, delta>>
    /\ norm_i' = norm_i + 1
    /\ UNCHANGED <<a_pc, pages, words_per_page, toc, sections, recommended,
                   suggested_range, per_section_allocation,
                   dq_total, dq_parts, dq_result, extracted>>
    /\ UNCHANGED exceptAnalyze

\* lines 90, 99-106: the loop ends; per_section is built from zip(sections, prelim)
NormalizeDone ==
    /\ task = "analyze" /\ a_pc = "normalize"
    /\ ~(delta # 0 /\ prelim # <<>>)
    /\ per_section_allocation' =
         [k \in 1..Min2(Len(sections), Len(prelim)) |->
            [title |-> sections[k].title,
             page_start |-> sections[k].page_start,
             page_end |-> sections[k].page_end,
             words |-> sections[k].words,
             cards |-> prelim[k]]]
    /\ a_pc' = "return"
    /\ UNCHANGED <<pages, words_per_page, toc, sections, recommended,
                   suggested_range, prelim, delta, norm_i,
                   dq_total, dq_parts, dq_result, extracted>>
    /\ UNCHANGED exceptAnalyze

\* lines 108-117: the result is returned
AnalyzeReturn ==
    /\ task = "analyze" /\ a_pc = "return"
    /\ a_pc' = "done"
    /\ UNCHANGED <<pages, words_per_page, toc, sections, recommended,
                   suggested_range, prelim, delta, norm_i,
                   per_section_allocation, dq_total, dq_parts, dq_result, extracted>>
    /\ UNCHANGED exceptAnalyze

\* _distribute_quota(total, parts) is called
DistributeQuota ==
    /\ task = "distribute"
    /\ dq_result' = distribute_quota(dq_total, dq_parts)
    /\ task' = "distributed"
    /\ UNCHANGED <<a_pc, pages, words_per_page, toc, sections, recommended,
                   suggested_range, prelim, delta, norm_i,
                   per_section_allocation, dq_total, dq_parts, extracted>>
    /\ UNCHANGED <<keyVars, pipeVars, restVars>>

\* sorted(S) of a set of integers
RECURSIVE SortedSeq(_)
SortedSeq(S) ==
    IF S = {} THEN <<>>
    ELSE LET m == CHOOSE x \in S : \A y \in S : x <= y
         IN <<m>> \o SortedSeq(S \ {m})

\* driver.py lines 28-54: the chunks of a document whose pages hold
\* words_per_page words (a page without words has no text): one chunk per
\* section with text when there are TOC sections, else one per page with text
ChunksOf(secs, wpp) ==
    IF secs # <<>>
    THEN LET with_text == {k \in 1..Len(secs) : secs[k].words > 0}
             order == SortedSeq(with_text)
         IN [k \in 1..Len(order) |->
               [page |-> secs[order[k]].page_start,
                title |-> secs[order[k]].title,
                words |-> secs[order[k]].words]]
    ELSE LET with_text == {k \in 1..Len(wpp) : wpp[k] > 0}
             order == SortedSeq(with_text)
         IN [k \in 1..Len(order) |->
               [page |-> order[k], title |-> 0, words |-> wpp[order[k]]]]

\* driver.py lines 12-57: run_extraction, after its analyze_document call
RunExtraction ==
    /\ task = "analyze" /\ a_pc = "done"
    /\ extracted' = ChunksOf(sections, words_per_page)
    /\ a_pc' = "extracted"
    /\ UNCHANGED <<pages, words_per_page, toc, sections, recommended,
                   suggested_range, prelim, delta, norm_i,
                   per_section_allocation, dq_total, dq_parts, dq_result>>
    /\ UNCHANGED exceptAnalyze

NextAnalyze ==
    \/ BuildSections \/ Recommend \/ NormalizeStep \/ NormalizeDone
    \/ AnalyzeReturn \/ RunExtraction \/ DistributeQuota

SpecAnalyze == (InitAnalyze \/ InitDistribute) /\ [][NextAnalyze]_vars

\* a correction loop that has been entered keeps running: its next
\* iteration, or its exit, is eventually executed
SpecAnalyzeLive ==
    SpecAnalyze /\ WF_vars(NormalizeStep) /\ WF_vars(NormalizeDone)

\* the 'cards' values of per_section_allocation
AllocatedCards ==
    [k \in 1..Len(per_section_allocation) |-> per_section_allocation[k].cards]

\* C1: the per-section quotas sum exactly to the total: analyze_document's
\* per_section_allocation sums to recommended_cards whenever there is a
\* section, and _distribute_quota(total, parts) sums to total for parts >= 1.
C1_QuotaConservation ==
    /\ (task = "analyze" /\ a_pc = "done" /\ sections # <<>>)
         => /\ Len(per_section_allocation) = Len(sections)
            /\ SumSeq(AllocatedCards) = recommended
    /\ (task = "distributed" /\ dq_parts >= 1)
         => /\ Len(dq_result) = dq_parts
            /\ SumSeq(dq_result) = dq_total

\* C1 witness: the normalisation loop had to take cards away before the
\* allocation was returned
C1_Witness ==
    /\ task = "analyze" /\ a_pc = "done"
    /\ Len(sections) >= 2
    /\ norm_i >= 1
    /\ SumSeq(AllocatedCards) = recommended
    /\ \E k \in 1..Len(sections) : sections[k].words = 0

\* sections are contiguous, non-overlapping and cover [1, n] exactly
IsPartition(secs, n) ==
    /\ secs # <<>>
    /\ secs[1].page_start = 1
    /\ secs[Len(secs)].page_end = n
    /\ \A k \in 1..Len(secs) : secs[k].page_start <= secs[k].page_end
    /\ \A k \in 1..Len(secs) - 1 : secs[k + 1].page_start = secs[k].page_end + 1

\* C6: for any table of contents (here: of up to MaxToc entries, at least
\* one of them within 1..pages), the sections built by analyze_document are
\* contiguous, non-overlapping and cover [1, pages] exactly.
C6_SectionPartition ==
    (/\ task = "analyze" /\ a_pc # "sections"
     /\ Len(toc) <= MaxToc /\ sections # <<>>)
        => IsPartition(sections, pages)

\* C16: run_extraction keeps a page (or section) without text as an empty
\* chunk, so the returned chunks are numbered 1..pages without a gap (one
\* chunk per section when the document has TOC sections).
C16_EmptyPagesRetained ==
    (task = "analyze" /\ a_pc = "extracted" /\ Len(toc) <= MaxToc) =>
        IF sections = <<>>
        THEN /\ Len(extracted) = pages
             /\ \A k \in 1..Len(extracted) : extracted[k].page = k
        ELSE /\ Len(extracted) = Len(sections)
             /\ \A k \in 1..Len(extracted) :
                   extracted[k].page = sections[k].page_start

\* C15: _distribute_quota(7, 10), the flat allocation of 7 cards over 10
\* sections, is [1,1,1,1,1,1,1,0,0,0]: the first seven sections get one card,
\* the last three none, and the sum is 7.
C15_FlatBaselineSevenOfTen ==
    (task = "distributed" /\ dq_total = 7 /\ dq_parts = 10)
        => /\ dq_result = <<1, 1, 1, 1, 1, 1, 1, 0, 0, 0>>
           /\ SumSeq(dq_result) = 7

\* _distribute_quota(7, 10) has returned
C15_Witness ==
    /\ task = "distributed" /\ dq_total = 7 /\ dq_parts = 10
    /\ Len(dq_result) = 10

\* C21: the correction pass terminates: from every state of the pass the
\* sum of the quotas comes to equal the target, within one walk through the
\* section list, and while the sum is above the target there is a section
\* with a quota above 0 to take a card from.
C21_CorrectionTerminates ==
    /\ (task = "analyze" /\ a_pc = "normalize")
          ~> (a_pc = "return" /\ delta = 0
                /\ SumSeq([k \in 1..Len(per_section_allocation) |->
                             per_section_allocation[k].cards]) = recommended)
    /\ [][(task = "analyze" /\ a_pc = "normalize")
             => norm_i' <= Len(prelim')]_vars
    /\ []((task = "analyze" /\ a_pc = "normalize" /\ delta < 0)
             => \E k \in 1..Len(prelim) : prelim[k] > 0)

\* the pass took a card away and ended with the exact sum
C21_Witness ==
    /\ task = "analyze" /\ a_pc = "return"
    /\ norm_i = 1 /\ delta = 0
    /\ prelim = <<1, 2>>
    /\ recommended = MinCards

\* C22: when the budget is at least the number of sections, every section
\* has a quota of at least 1 throughout the correction pass and in the
\* returned allocation.
C22_BreadthGuarantee ==
    (task = "analyze" /\ recommended >= Len(sections)
       /\ a_pc \in {"normalize", "return", "done", "extracted"}) =>
        /\ \A k \in 1..Len(prelim) : prelim[k] >= 1
        /\ \A k \in 1..Len(per_section_allocation) :
              per_section_allocation[k].cards >= 1

\* rounding gave one card too many and the pass took it from the first
\* section, which keeps its baseline card
C22_Witness ==
    /\ task = "analyze" /\ a_pc = "done"
    /\ Len(sections) = 2 /\ recommended = MinCards
    /\ norm_i = 1
    /\ per_section_allocation[1].cards = 1
    /\ per_section_allocation[2].cards = 2

\* the over-allocation of section k against its share (words or 1) /
\* total_sec_words of the target, scaled by total_sec_words
OverAllocation(k) ==
    LET sum_words == SumSeq([i \in 1..Len(sections) |-> sections[i].words])
        total_sec_words == IF sum_words # 0 THEN sum_words ELSE Len(sections)
        w == IF sections[k].words # 0 THEN sections[k].words ELSE 1
    IN prelim[k] * total_sec_words - recommended * w

\* C23: each step of the correction pass changes one quota by exactly
\* one: it increments the most under-allocated section when the sum is
\* below the target and decrements the most over-allocated one when above.
C23_MostMisallocatedFirst ==
    [][(task = "analyze" /\ a_pc = "normalize" /\ prelim' # prelim) =>
         \E j \in 1..Len(prelim) :
            /\ \A k \in 1..Len(prelim) : k # j => prelim'[k] = prelim[k]
            /\ delta > 0 =>
                  /\ prelim'[j] = prelim[j] + 1
                  /\ \A k \in 1..Len(prelim) :
                        OverAllocation(j) <= OverAllocation(k)
            /\ delta < 0 =>
                  /\ prelim'[j] = prelim[j] - 1
                  /\ \A k \in 1..Len(prelim) :
                        OverAllocation(j) >= OverAllocation(k)]_vars

(***************************************************************************)
(* cards_from_document (flashcards/ai/pipeline/core.py) with               *)
(* _cards_from_chunk and _ask_openai (flashcards/ai/flashcard_gen.py).     *)
(* A card is a record [front, back, section, page, card_key]; section "",  *)
(* page 0 and card_key <<>> stand for an absent field, and an absent front *)
(* or back reads as "" (c.get("front", "")).                               *)
(* _cards_from_chunk reads only the lengths of the replies it collects, so *)
(* a reply is its length until _cards_from_chunk returns; what the         *)
(* collected cards hold is drawn when they are first read, at the return.  *)
(***************************************************************************)
MaxReply == 2        \* cards in one reply of the generation call
MaxNeed == 2         \* the largest quota of one entry
MaxTotal == 2        \* the largest total_cards
MaxTarget == 5       \* the largest target of a one-card-per-call run
DefaultPerChunk == 30    \* max_cards_per_chunk: int = 30
BatchSize == 3       \* min(3, want)

SectionNames == {"S1", "S2"}

LLMCard(f, b, sec) ==
    [front |-> f, back |-> b, section |-> sec, page |-> 0, card_key |-> <<>>]

\* what the generation call can put into a reply: two cards that differ
\* only in letter case and section, a third with other content, one
\* without a front
LLMCards ==
    { LLMCard(<<"a">>, <<"b">>, ""),
      LLMCard(<<"A">>, <<"b">>, "S2"),
      LLMCard(<<"b">>, <<"a">>, ""),
      LLMCard(<<>>, <<"a">>, "") }

\* the card of the k-th request of a run in which every request returns
\* exactly one card with content no other request returns
UniqueCard(k) == LLMCard([i \in 1..k |-> "b"], <<"b">>, "")

AllLLMCards == LLMCards \cup {UniqueCard(k) : k \in 1..(MaxTarget + 1)}

\* build_card_key of every (front, back) the generation call can produce,
\* computed once
CardKeyOf ==
    [f \in {c.front : c \in AllLLMCards}, b \in {c.back : c \in AllLLMCards} |->
        build_card_key(f, b)]

RECURSIVE SeqsOfLen(_, _)
SeqsOfLen(S, n) ==
    IF n = 0 THEN {<<>>}
    ELSE {Append(q, x) : q \in SeqsOfLen(S, n - 1), x \in S}

\* the lengths of the lists _ask_openai can return (it returns a list on
\* every path that returns: the parsed "cards", or [] when the JSON cannot
\* be parsed)
ReplyLens == 0..MaxReply

\* a slice q[:n] left out: the whole of q
TakeAll(len, n) == len

\* len(q[:n]) for a list q of length len
Take(len, n) == Min2(Max2(n, 0), len)

\* d.get(k, default) of a dict modelled as a function
Get(d, k, default) == IF k \in DOMAIN d THEN d[k] ELSE default

\* line 193-194: page_to_section.get(pg) if page_to_section else None
section_for_page(pg) == Get(page_to_section, pg, "")

\* lines 114-117: the pages that have text
PagesWithText == {chunks[k] : k \in 1..Len(chunks)}

RECURSIVE ConcatAll(_)
ConcatAll(qs) == IF qs = <<>> THEN <<>> ELSE Head(qs) \o ConcatAll(Tail(qs))

\* which branch of cards_from_document runs (lines 158, 196, 224, 246)
Mode ==
    IF DOMAIN per_page_section_quotas # {} THEN "page_section"
    ELSE IF DOMAIN per_page_quotas # {} THEN "page"
    ELSE IF total_cards # NoTotal THEN "global"
    ELSE "legacy"

\* the (page, section, quota) triples in the order the branch's loops visit
\* them
EntriesOf ==
    CASE Mode = "page_section" ->
           LET ps == SortedSeq(DOMAIN per_page_section_quotas \cap PagesWithText)
           IN ConcatAll([k \in 1..Len(ps) |->
                 [j \in 1..Len(per_page_section_quotas[ps[k]]) |->
                    [page |-> ps[k],
                     section |-> per_page_section_quotas[ps[k]][j].section,
                     quota |-> per_page_section_quotas[ps[k]][j].need]]])
      [] Mode = "page" ->
           [k \in 1..Len(chunks) |->
              [page |-> chunks[k],
               section |-> section_for_page(chunks[k]),
               quota |-> Get(per_page_quotas, chunks[k], 0)]]
      [] Mode = "global" ->
           LET quotas == distribute_quota(total_cards, Len(chunks))
           IN [k \in 1..Min2(Len(chunks), Len(quotas)) |->
                 [page |-> chunks[k],
                  section |-> section_for_page(chunks[k]),
                  quota |-> quotas[k]]]
      [] OTHER ->
           [k \in 1..Len(chunks) |->
              [page |-> chunks[k],
               section |-> section_for_page(chunks[k]),
               quota |-> max_cards_per_chunk]]

\* lines 138-142 with every section allowed
section_allowed_always(sec, used) == TRUE

\* lines 138-142
section_allowed(sec, used) ==
    IF sec = "" \/ DOMAIN section_caps = {} THEN TRUE
    ELSE (sec \notin DOMAIN section_caps) \/ (used[sec] < section_caps[sec])

\* line 146, 'not k': the key is the empty string
KeyMissing(k) == k = <<>>

\* line 146 without the 'k in seen_keys' test
IsDuplicateNever(k, seen) == FALSE

\* line 146: k in seen_keys
IsDuplicate(k, seen) == k \in seen

\* line 151 left out: the key is not remembered
SeenAddNothing(seen, k) == seen

\* line 151: seen_keys.add(k)
SeenAdd(seen, k) == seen \cup {k}

\* lines 144-155, folded over the returned cards 'got' (lines 177-182,
\* 213-215, 235-237, 249-251); st = [cards, seen, used, added]
RECURSIVE KeepAll(_, _)
KeepAll(cs, st) ==
    IF cs = <<>> THEN st
    ELSE LET c == Head(cs)
             k == CardKeyOf[c.front, c.back]
             keep == /\ ~(KeyMissing(k) \/ IsDuplicate(k, st.seen))
                     /\ section_allowed(c.section, st.used)
         IN KeepAll(Tail(cs),
              IF keep
              THEN [cards |-> Append(st.cards, [c EXCEPT !.card_key = k]),
                    seen |-> SeenAdd(st.seen, k),
                    used |-> IF c.section # ""
                             THEN [st.used EXCEPT ![c.section] = @ + 1]
                             ELSE st.used,
                    added |-> st.added + 1]
              ELSE st)

\* c.setdefault("page", page_no); c.setdefault("section", section)
SetDefaults(c, page_no, sec) ==
    [c EXCEPT !.page = IF @ = 0 THEN page_no ELSE @,
              !.section = IF @ = "" THEN sec ELSE @]

\* flashcard_gen.py lines 135-141: the metadata is filled in and at most
\* max_cards cards are returned; 'have' holds any cards the generation call
\* can produce
CfcResults(c) ==
    LET n == Take(c.have_len, c.max_cards)
    IN IF llm = "one_unique"
       THEN \* 'have' holds the cards of this call's requests, one of each
            {[k \in 1..n |->
                SetDefaults(UniqueCard(calls - c.calls + k),
                            c.page_no, c.section)]}
       ELSE {[k \in 1..Len(have) |->
                SetDefaults(have[k], c.page_no, c.section)] :
                    have \in SeqsOfLen(LLMCards, n)}

\* lines 190, 221: cards[: (total_cards or len(cards))]; line 243:
\* cards[:total_cards]; line 252: cards
ReturnSlice(cs) ==
    CASE Mode \in {"page_section", "page"} ->
           SubSeq(cs, 1, Take(Len(cs), IF total_cards \in {NoTotal, 0}
                                       THEN Len(cs) ELSE total_cards))
      [] Mode = "global" -> SubSeq(cs, 1, Take(Len(cs), total_cards))
      [] OTHER -> cs

\* the first entry after k that is on another page (the 'break' of line 189
\* leaves the loop over the page's sections only)
NextPageIdx(k) ==
    LET later == {j \in k+1..Len(entries) : entries[j].page # entries[k].page}
    IN IF later = {} THEN Len(entries) + 1
       ELSE CHOOSE j \in later : \A m \in later : j <= m

\* lines 188-189, 219-220, 241-242: after an entry's while loop, the index of
\* the entry the loops go on with
AfterEntry(cs) ==
    CASE Mode = "page_section" ->
           IF total_cards \notin {NoTotal, 0} /\ Len(cs) >= total_cards
           THEN NextPageIdx(idx) ELSE idx + 1
      [] Mode = "page" ->
           IF total_cards \notin {NoTotal, 0} /\ Len(cs) >= total_cards
           THEN Len(entries) + 1 ELSE idx + 1
      [] Mode = "global" ->
           IF Len(cs) >= total_cards THEN Len(entries) + 1 ELSE idx + 1
      [] OTHER -> idx + 1

ZeroUsed == [sec \in SectionNames |-> 0]

\* lines 177-179: the returned cards as the caller's loop reads them
SeenByCaller(ret) ==
    IF Mode = "page_section"
    THEN [k \in 1..Len(ret) |->
            SetDefaults(ret[k], entries[idx].page, entries[idx].section)]
    ELSE ret

\* lines 176-182, 212-215, 234-237, 249-251: the caller's loop over the
\* returned cards, from the current cards, seen_keys and used_per_section
Kept(ret) ==
    KeepAll(SeenByCaller(ret),
            [cards |-> cards, seen |-> seen_keys,
             used |-> used_per_section, added |-> 0])

(* ---- the arguments of a run ---- *)
QuotaEntry(sec, n) == [section |-> sec, need |-> n]

PageSectionQuotaChoices ==
    {<<>>}
    \cup {(1 :> <<QuotaEntry("S1", n), QuotaEntry("S2", 1)>>) : n \in 1..MaxNeed}
    \cup {(1 :> <<QuotaEntry("S1", n)>>) @@ (2 :> <<QuotaEntry("S2", n)>>) :
            n \in 1..MaxNeed}

PageQuotaChoices ==
    {<<>>} \cup {(1 :> n) @@ (2 :> m) : n \in 1..MaxNeed, m \in 0..1}

PageToSectionChoices == {<<>>, (1 :> "S1") @@ (2 :> "S2")}

\* section_caps as it stands after line 132: none, or a cap per section
SectionCapChoices == {<<>>, ("S1" :> 1) @@ ("S2" :> 0)}

\* the pages of the non-empty chunks, in document order (driver.py lines
\* 28-54; two sections that start on one page give two chunks of that page)
ChunkChoices == {<<>>, <<1>>, <<1, 2>>, <<1, 1>>}

\* max_cards_per_chunk: one cap below the batch size, one above it
ChunkCapChoices == {1, BatchSize + 1}

InitPipe ==
    /\ task = "cards"
    /\ IdleKey /\ IdleAnalyze /\ IdleRest
    /\ extraction \in {"ok", "error"}
    /\ chunks \in ChunkChoices
    /\ total_cards \in {NoTotal} \cup 0..MaxTotal
    /\ max_cards_per_chunk \in ChunkCapChoices
    /\ per_page_section_quotas \in PageSectionQuotaChoices
    /\ per_page_quotas \in PageQuotaChoices
    /\ page_to_section \in PageToSectionChoices
    /\ section_caps \in SectionCapChoices
    /\ llm = "any"
    \* one branch's arguments at a time; a failed extraction reads none
    /\ DOMAIN per_page_section_quotas # {}
         => DOMAIN per_page_quotas = {} /\ DOMAIN page_to_section = {}
    \* caps come with sections: from the quota lists or from page_to_section
    /\ DOMAIN section_caps # {}
         => \/ DOMAIN per_page_section_quotas # {}
            \/ DOMAIN page_to_section # {}
    /\ extraction = "error"
         => /\ chunks = <<>> /\ total_cards = NoTotal
            /\ max_cards_per_chunk = BatchSize + 1
            /\ DOMAIN per_page_section_quotas = {}
            /\ DOMAIN per_page_quotas = {}
            /\ DOMAIN page_to_section = {} /\ DOMAIN section_caps = {}
    /\ pc = "start" /\ entries = <<>> /\ idx = 0 /\ need = 0
    /\ cards = <<>> /\ seen_keys = {} /\ used_per_section = ZeroUsed
    /\ cfc = NoCfc /\ calls = 0 /\ error = "none" /\ result = <<>>

\* a document of one section with text; every request returns one card of
\* its own; the target is total_cards, or max_cards_per_chunk for the single
\* call _cards_from_chunk(chunk, max_cards=t) of the per-chunk branch
InitOneCardPerCall ==
    /\ task = "cards"
    /\ IdleKey /\ IdleAnalyze /\ IdleRest
    /\ extraction = "ok"
    /\ chunks = <<1>>
    /\ llm = "one_unique"
    /\ \E t \in 1..MaxTarget :
         \/ total_cards = t /\ max_cards_per_chunk = DefaultPerChunk
         \/ total_cards = NoTotal /\ max_cards_per_chunk = t
    /\ per_page_section_quotas = <<>> /\ per_page_quotas = <<>>
    /\ page_to_section = <<>> /\ section_caps = <<>>
    /\ pc = "start" /\ entries = <<>> /\ idx = 0 /\ need = 0
    /\ cards = <<>> /\ seen_keys = {} /\ used_per_section = ZeroUsed
    /\ cfc = NoCfc /\ calls = 0 /\ error = "none" /\ result = <<>>

frame == <<argVars, exceptPipe>>

\* lines 97-136: extraction (its error leaves the function), then the locals
Start ==
    /\ task = "cards" /\ pc = "start"
    /\ IF extraction = "error"
       THEN /\ pc' = "raised" /\ error' = "extraction"
            /\ UNCHANGED <<entries, idx>>
       ELSE /\ pc' = "entry" /\ entries' = EntriesOf /\ idx' = 1
            /\ UNCHANGED error
    /\ UNCHANGED <<need, cards, seen_keys, used_per_section, cfc, calls,
                   result>>
    /\ UNCHANGED frame

\* the loops are exhausted (or were left): the function returns
Return ==
    /\ task = "cards" /\ pc = "entry" /\ idx > Len(entries)
    /\ result' = ReturnSlice(cards)
    /\ pc' = "done"
    /\ UNCHANGED <<entries, idx, need, cards, seen_keys, used_per_section,
                   cfc, calls, error>>
    /\ UNCHANGED frame

\* a call _cards_from_chunk(chunk_txt, page_no, section, max_cards=n)
CallCfc(e, n) ==
    cfc' = [max_cards |-> n, want |-> n, have_len |-> 0, batch |-> 0,
            asked |-> 0, calls |-> 0,
            got_len |-> 0, singles_left |-> 0, singles_ok |-> 0,
            page_no |-> e.page, section |-> e.section]

\* lines 164, 201, 229 left out: the quota is taken as it is
CutToCeilingNot(q) == q

\* lines 164, 201, 229: need = min(int(need), max_cards_per_chunk)
CutToCeiling(q) == Min2(q, max_cards_per_chunk)

\* the head of the loops over the entries: lines 163-164, 197-202, 226-230,
\* 246-248
NextEntry ==
    /\ task = "cards" /\ pc = "entry" /\ idx <= Len(entries)
    /\ LET e == entries[idx]
       IN CASE Mode = "legacy" ->
                 /\ CallCfc(e, max_cards_per_chunk)
                 /\ pc' = IF max_cards_per_chunk > 0 THEN "cfc_loop"
                          ELSE "cfc_return"
                 /\ UNCHANGED <<idx, need>>
            [] Mode \in {"page", "global"} /\ e.quota <= 0 ->
                 /\ idx' = idx + 1
                 /\ UNCHANGED <<pc, need, cfc>>
            [] OTHER ->
                 /\ need' = CutToCeiling(e.quota)
                 /\ pc' = "batch"
                 /\ UNCHANGED <<idx, cfc>>
    /\ UNCHANGED <<entries, cards, seen_keys, used_per_section, calls,
                   error, result>>
    /\ UNCHANGED frame

\* the head of 'while need > 0': lines 165-175, 203-211, 231-233
BeginBatch ==
    /\ task = "cards" /\ pc = "batch"
    /\ LET e == entries[idx]
           capped == /\ Mode \in {"page_section", "page"}
                     /\ e.section # ""
                     /\ e.section \in DOMAIN section_caps
           remaining == Max2(0, section_caps[e.section]
                                  - used_per_section[e.section])
       IN IF need <= 0 \/ (capped /\ remaining <= 0)
          THEN /\ idx' = AfterEntry(cards)
               /\ pc' = "entry"
               /\ UNCHANGED cfc
          ELSE /\ CallCfc(e, IF capped
                             THEN Min2(BatchSize, Min2(need, remaining))
                             ELSE Min2(BatchSize, need))
               /\ pc' = "cfc_loop"
               /\ UNCHANGED idx
    /\ UNCHANGED <<entries, need, cards, seen_keys, used_per_section,
                   calls, error, result>>
    /\ UNCHANGED frame

\* flashcard_gen.py line 133 stopping one card short
WantAfterOneShort(have_len) == Max2(0, cfc.max_cards - have_len - 1)

\* flashcard_gen.py line 133: want = max(0, max_cards - len(have))
WantAfter(have_len) == Max2(0, cfc.max_cards - have_len)

\* flashcard_gen.py line 117 without the cap of 3
BatchOfUncapped(want) == want

\* flashcard_gen.py line 117: batch = min(3, want)
BatchOf(want) == Min2(BatchSize, want)

\* flashcard_gen.py line 123 with one request too many
SinglesForOneMore(batch) == batch + 1

\* flashcard_gen.py line 123: for _ in range(batch)
SinglesFor(batch) == batch

\* the lengths of the replies the generation call gives in this run
Replies == IF llm = "one_unique" THEN {1} ELSE ReplyLens

\* the request itself can fail (flashcard_gen.py line 64)
MayRaise == llm = "any"

\* the requests of the whole run are counted where the claim is about their
\* number (the one-card-per-call runs); cfc.calls counts those of one
\* _cards_from_chunk call in every run
CallsAfter == IF llm = "one_unique" THEN calls + 1 ELSE calls

\* one request _ask_openai(chunk_text, page_no, section, n) is counted
Asked(c, n) == [c EXCEPT !.asked = n, !.calls = @ + 1]

\* flashcard_gen.py lines 116-133: one pass of 'while want > 0' whose batch
\* request returns (lines 117-118 and 130-133), or raises (line 64)
AskBatch ==
    /\ task = "cards" /\ pc = "cfc_loop" /\ cfc.want > 0
    /\ LET batch == BatchOf(cfc.want)
           c == Asked(cfc, batch)
       IN \/ /\ MayRaise
             /\ pc' = "raised" /\ error' = "generation"
             /\ cfc' = [c EXCEPT !.batch = batch, !.got_len = 0]
          \/ \E reply \in Replies :
               /\ UNCHANGED error
               /\ IF reply = 0
                  THEN /\ cfc' = [c EXCEPT !.batch = batch,
                                           !.got_len = reply,
                                           !.singles_left = SinglesFor(batch),
                                           !.singles_ok = 0]
                       /\ pc' = "cfc_singles"
                  ELSE LET have == cfc.have_len + Take(reply, batch)
                       IN /\ cfc' = [c EXCEPT !.batch = batch,
                                              !.got_len = reply,
                                              !.have_len = have,
                                              !.want = WantAfter(have)]
                          /\ pc' = IF WantAfter(have) > 0 THEN "cfc_loop"
                                   ELSE "cfc_return"
    /\ calls' = CallsAfter
    /\ UNCHANGED <<entries, idx, need, cards, seen_keys, used_per_section,
                   result>>
    /\ UNCHANGED frame

\* flashcard_gen.py lines 120-129, 133: one single-card request of the
\* fallback loop
AskSingle ==
    /\ task = "cards" /\ pc = "cfc_singles" /\ cfc.singles_left > 0
    /\ LET c == Asked(cfc, 1)
       IN \/ /\ MayRaise
             /\ pc' = "raised" /\ error' = "generation"
             /\ cfc' = c
          \/ \E one \in Replies :
               LET have == IF one # 0 THEN cfc.have_len + Take(one, 1)
                           ELSE cfc.have_len
                   ok == IF one # 0 THEN cfc.singles_ok + 1
                         ELSE cfc.singles_ok
                   left == cfc.singles_left - 1
               IN /\ UNCHANGED error
                  /\ IF left > 0
                     THEN /\ cfc' = [c EXCEPT !.have_len = have,
                                              !.singles_ok = ok,
                                              !.got_len = one,
                                              !.singles_left = left]
                          /\ UNCHANGED pc
                     ELSE IF ok = 0
                     THEN /\ cfc' = [c EXCEPT !.singles_left = left,
                                              !.got_len = one]
                          /\ pc' = "cfc_return"
                     ELSE /\ cfc' = [c EXCEPT !.have_len = have,
                                              !.singles_ok = ok,
                                              !.got_len = one,
                                              !.singles_left = left,
                                              !.want = WantAfter(have)]
                          /\ pc' = IF WantAfter(have) > 0 THEN "cfc_loop"
                                   ELSE "cfc_return"
    /\ calls' = CallsAfter
    /\ UNCHANGED <<entries, idx, need, cards, seen_keys, used_per_section,
                   result>>
    /\ UNCHANGED frame

\* lines 184, 216, 238 never taken: the loop goes on without a new card
NoneAddedNever(added) == FALSE

\* lines 184, 216, 238: if added == 0: break
NoneAdded(added) == added = 0

\* _cards_from_chunk returns (flashcard_gen.py lines 135-141) and the caller
\* goes through the cards: lines 176-186, 212-218, 234-240, 249-251
CfcReturn ==
    /\ task = "cards" /\ pc = "cfc_return"
    /\ \E ret \in CfcResults(cfc) :
       LET st == Kept(ret)
       IN /\ cfc' = NoCfc
          /\ cards' = st.cards
          /\ seen_keys' = st.seen
          /\ used_per_section' = st.used
          /\ CASE Mode = "legacy" ->
                    /\ idx' = idx + 1 /\ pc' = "entry" /\ UNCHANGED need
               [] Mode # "legacy" /\ NoneAdded(st.added) ->
                    /\ idx' = AfterEntry(st.cards) /\ pc' = "entry"
                    /\ UNCHANGED need
               [] OTHER ->
                    /\ need' = need - st.added /\ pc' = "batch"
                    /\ UNCHANGED idx
    /\ UNCHANGED <<entries, calls, error, result>>
    /\ UNCHANGED frame

Next == Start \/ NextEntry \/ BeginBatch \/ AskBatch \/ AskSingle
          \/ CfcReturn \/ Return

Spec == (InitPipe \/ InitOneCardPerCall) /\ [][Next]_vars

\* the code runs on until it returns or raises: a request that returns is
\* followed by the next statement
SpecLive == Spec /\ WF_vars(Next)

(***************************************************************************)
(* generate_deck (flashcards/views.py lines 108-250): the request is read, *)
(* the plan and the total are computed, and cards_from_document is called. *)
(***************************************************************************)
MaxWanted == 32      \* the largest cards_wanted of a request
MaxAlloc == 2        \* the most allocations of a request
MaxPerSection == 8   \* MAX_PER_SECTION
DefaultWanted == 12  \* request.POST.get("cards_wanted", 12)

AllocTitles == {"", "A", "B"}

\* the parsed allocations of a request: titles stripped, cards an integer
AllocChoices ==
    UNION {SeqsOfLen([title : AllocTitles, cards : -1..(MaxPerSection + 1)], n) :
             n \in 0..MaxAlloc}

\* the cards_wanted field of a request: absent, not a number, or a number
WantedChoices ==
    {[kind |-> k, n |-> 0] : k \in {"absent", "bad"}}
        \cup {[kind |-> "int", n |-> n] : n \in 0..MaxWanted}

\* lines 122-126
WantedOf(raw) ==
    LET n == IF raw.kind = "int" THEN raw.n ELSE DefaultWanted
    IN Max2(MinCards, Min2(n, MaxCards))

\* lines 131-138: a later allocation of a title replaces an earlier one
RECURSIVE PlannedOf(_, _)
PlannedOf(allocs, planned) ==
    IF allocs = <<>> THEN planned
    ELSE LET a == Head(allocs)
             n == Max2(0, Min2(a.cards, MaxPerSection))
         IN PlannedOf(Tail(allocs),
                      IF a.title = "" THEN planned
                      ELSE (a.title :> n) @@ planned)

\* sum(planned_by_title.values())
RECURSIVE SumValues(_)
SumValues(f) ==
    IF DOMAIN f = {} THEN 0
    ELSE LET k == CHOOSE x \in DOMAIN f : TRUE
         IN f[k] + SumValues([x \in DOMAIN f \ {k} |-> f[x]])

\* lines 140-141
TotalOf(planned, wanted) ==
    Max2(MinCards,
         Min2(IF DOMAIN planned # {} THEN SumValues(planned) ELSE wanted,
              MaxCards))

\* lines 152-164: one entry per allocation with a title
RECURSIVE SectionsPlanOf(_, _)
SectionsPlanOf(allocs, planned) ==
    IF allocs = <<>> THEN <<>>
    ELSE LET a == Head(allocs)
         IN (IF a.title = "" THEN <<>>
             ELSE <<[title |-> a.title, cards |-> Get(planned, a.title, 0)]>>)
            \o SectionsPlanOf(Tail(allocs), planned)

InitDeck ==
    /\ task = "deck"
    /\ IdleKey /\ IdleAnalyze /\ IdlePipe /\ IdleTemplate
    /\ gd_pc = "start"
    /\ gd_file \in BOOLEAN
    /\ gd_wanted \in WantedChoices
    /\ allocations \in AllocChoices
    \* a request has its allocations or its cards_wanted
    /\ allocations # <<>> => gd_wanted.kind = "absent"
    /\ gd_file = FALSE => allocations = <<>> /\ gd_wanted.kind = "absent"
    /\ cards_wanted = 0 /\ planned_by_title = <<>>
    /\ gd_total_cards = 0 /\ sections_plan = <<>> /\ gd_status = 0
    /\ gd_error = "none" /\ gd_rows = 0

deckFrame == <<task, keyVars, anVars, pipeVars, tplVars>>

\* lines 115-128
GdRead ==
    /\ task = "deck" /\ gd_pc = "start"
    /\ IF ~gd_file
       THEN /\ gd_status' = 400 /\ gd_pc' = "done"
            /\ gd_error' = "no file"
            /\ UNCHANGED cards_wanted
       ELSE /\ cards_wanted' = WantedOf(gd_wanted)
            /\ gd_pc' = "plan"
            /\ UNCHANGED <<gd_status, gd_error>>
    /\ UNCHANGED <<gd_file, gd_wanted, allocations, planned_by_title,
                   gd_total_cards, sections_plan, gd_rows>>
    /\ UNCHANGED deckFrame

\* lines 130-141
GdPlan ==
    /\ task = "deck" /\ gd_pc = "plan"
    /\ LET planned == PlannedOf(allocations, <<>>)
       IN /\ planned_by_title' = planned
          /\ gd_total_cards' = TotalOf(planned, cards_wanted)
    /\ gd_pc' = "build"
    /\ UNCHANGED <<gd_file, gd_wanted, allocations, cards_wanted,
                   sections_plan, gd_status, gd_error, gd_rows>>
    /\ UNCHANGED deckFrame

\* lines 144-173 and 242-244: the plan is built and cards_from_document is
\* called with sections_plan= and max_cards_per_section=, which its
\* signature (core.py lines 80-96) does not have: the call raises TypeError
\* before run_extraction is reached, the handler (lines 242-244) answers 500,
\* and Deck.objects.create (line 178) is never reached
GdBuild ==
    /\ task = "deck" /\ gd_pc = "build"
    /\ sections_plan' = SectionsPlanOf(allocations, planned_by_title)
    /\ gd_error' = "TypeError"
    /\ gd_status' = 500
    /\ gd_pc' = "done"
    /\ UNCHANGED <<gd_file, gd_wanted, allocations, cards_wanted,
                   planned_by_title, gd_total_cards, gd_rows>>
    /\ UNCHANGED deckFrame

NextDeck == GdRead \/ GdPlan \/ GdBuild

SpecDeck == InitDeck /\ [][NextDeck]_vars

\* C17: the total_cards generate_deck passes on is within [3, 30], and when
\* the request carries a per-section plan the planned counts (each clamped
\* to 0..8) sum to that total_cards.
C17_BudgetMatchesPlan ==
    (task = "deck" /\ gd_pc \in {"build", "done"} /\ gd_status # 400) =>
        /\ gd_total_cards \in MinCards..MaxCards
        /\ DOMAIN planned_by_title # {}
              => SumValues(planned_by_title) = gd_total_cards

\* C27: a request with a file is answered 500 only when the extraction
\* failed or the run gave no card, and then it has created no Deck and no
\* Card row.
C27_FailsHardOnlyWithoutCards ==
    (task = "deck" /\ gd_pc = "done" /\ gd_status = 500) =>
        /\ gd_error \in {"extraction failed", "zero cards"}
        /\ gd_rows = 0

\* str.strip() and its halves
RECURSIVE LStrip(_)
LStrip(s) == IF s # <<>> /\ IsSpace(Head(s)) THEN LStrip(Tail(s)) ELSE s

RECURSIVE RStrip(_)
RStrip(s) ==
    IF s # <<>> /\ IsSpace(s[Len(s)]) THEN RStrip(SubSeq(s, 1, Len(s) - 1))
    ELSE s

\* str.strip()
Strip(s) == RStrip(LStrip(s))

(***************************************************************************)
(* build_template_from_chunks (flashcards/ai/pipeline/templater.py): the   *)
(* chunks are templated by concurrent workers, their sections are          *)
(* collected and merged, and _template_from_sections numbers the items.    *)
(* A bullet is [chunk, sec, k]: bullet k of section sec of the reply to    *)
(* chunk number chunk (0 for the single call on the whole text).           *)
(***************************************************************************)
MaxChunks == 2     \* the most chunks run_extraction returns
MinBullets == 5    \* a section is kept with at least 5 bullets
MaxBullets == 6    \* and holds at most 6
MaxWorkers == 6    \* ThreadPoolExecutor(max_workers=min(6, ...))
NoPage == 0        \* page_start = None, page_end = None

DefaultTitle == <<"S", "e", "c", "t", "i", "o", "n">>

\* the section titles run_extraction finds; <<>> is None
HintTitles == {<<>>, <<"A">>, <<"a", "?", " ">>}

\* the section titles the LLM writes, stripped
LLMTitles == {<<>>, <<"A">>}

BulletCounts == (MinBullets - 1)..(MaxBullets + 1)

TitleLower(ch) == IF ch = "S" THEN "s" ELSE Lower(ch)

RECURSIVE CollapseSpaces(_)
CollapseSpaces(s) ==
    IF s = <<>> THEN <<>>
    ELSE IF IsSpace(Head(s))
         THEN <<" ">> \o CollapseSpaces(LStrip(s))
         ELSE <<Head(s)>> \o CollapseSpaces(Tail(s))

\* [^\w\s&:+/().,'’\-^*=\[\]{}|] : the characters the pattern does NOT match
NormKeeps(ch) ==
    \/ ch \in {"a", "b", "c", "A", "S", "s", "e", "t", "i", "o", "n"}
    \/ IsSpace(ch)
    \/ ch \in {"&", ":", "+", "/", "(", ")", ".", ",", "'", "-", "^", "*",
               "=", "[", "]", "{", "}", "|"}

\* _norm
Norm(s) ==
    LET low == [i \in 1..Len(s) |-> TitleLower(s[i])]
    IN Strip(SelectSeq(CollapseSpaces(low), NormKeeps))

\* the replies of the LLM to one request: the request fails, the worker
\* raises, or the reply lists sections [title, bullets], bullets being the
\* number of bullets that have a question and an answer
RawSections(hint) ==
    [title : IF hint # <<>> THEN {<<>>} ELSE LLMTitles, bullets : BulletCounts]

RawReplies(hint) ==
    {[kind |-> k, sections |-> <<>>] : k \in {"error", "crash", "ok"}}
        \cup {[kind |-> "ok", sections |-> <<x>>] : x \in RawSections(hint)}
        \cup {[kind |-> "ok", sections |-> <<x, y>>] :
                x \in {r \in RawSections(hint) : r.bullets = MinBullets},
                y \in {r \in RawSections(hint) : r.bullets = MinBullets}}

\* lines 143-159
RECURSIVE SectionsFrom(_, _, _, _)
SectionsFrom(raw, j, hint, chunk) ==
    IF j > Len(raw) THEN <<>>
    ELSE LET r == raw[j]
             title == IF hint # <<>> THEN hint ELSE r.title
             n == Min2(r.bullets, MaxBullets)
         IN (IF r.bullets >= MinBullets
             THEN <<[title |-> IF title = <<>> THEN DefaultTitle ELSE title,
                     bullets |-> [k \in 1..n |->
                                    [chunk |-> chunk, sec |-> j, k |-> k]],
                     page_start |-> NoPage, page_end |-> NoPage]>>
             ELSE <<>>)
            \o SectionsFrom(raw, j + 1, hint, chunk)

\* _ask_llm_sections
ask_llm_sections(reply, hint, chunk) ==
    IF reply.kind # "ok" THEN <<>>
    ELSE SectionsFrom(reply.sections, 1, hint, chunk)

\* lines 169-177 with every bullet of a section already seen appended
MergeOneUncapped(acc, x) ==
    LET k == Norm(x.title)
        hit == {i \in 1..Len(acc) : Norm(acc[i].title) = k}
    IN IF hit # {}
       THEN LET i == CHOOSE i \in hit : TRUE
            IN [acc EXCEPT ![i].bullets = @ \o x.bullets]
       ELSE Append(acc, [title |-> x.title,
                         bullets |-> SubSeq(x.bullets, 1,
                                            Min2(MaxBullets, Len(x.bullets))),
                         page_start |-> NoPage, page_end |-> NoPage])

\* lines 169-177 for one section of extra; the keys of by_key are the
\* normalised titles of acc, which are pairwise distinct
MergeOne(acc, x) ==
    LET k == Norm(x.title)
        hit == {i \in 1..Len(acc) : Norm(acc[i].title) = k}
    IN IF hit # {}
       THEN LET i == CHOOSE i \in hit : TRUE
                missing == Max2(0, MaxBullets - Len(acc[i].bullets))
            IN [acc EXCEPT ![i].bullets =
                    @ \o SubSeq(x.bullets, 1, Min2(missing, Len(x.bullets)))]
       ELSE Append(acc, [title |-> x.title,
                         bullets |-> SubSeq(x.bullets, 1,
                                            Min2(MaxBullets, Len(x.bullets))),
                         page_start |-> NoPage, page_end |-> NoPage])

\* _merge_sections: by_key keeps its keys in the order of their first
\* appearance in base + extra, the order of the returned list
RECURSIVE merge_sections(_, _)
merge_sections(base, extra) ==
    IF extra = <<>> THEN base
    ELSE merge_sections(MergeOne(base, Head(extra)), Tail(extra))

\* _even_ranges with 'start' one page early
even_ranges_early_start(n0, total0) ==
    LET total == Max2(1, total0)
        n == Max2(1, n0)
        start(i) == Max2(1, Min2((i * total) \div n, total))
        end(i) == Max2(start(i), Min2(((i + 1) * total) \div n, total))
    IN [i \in 1..n |->
          <<IF i = 1 THEN 1 ELSE start(i - 1),
            IF i = n THEN total ELSE end(i - 1)>>]

\* _even_ranges
even_ranges(n0, total0) ==
    LET total == Max2(1, total0)
        n == Max2(1, n0)
        start(i) == Max2(1, Min2((i * total) \div n + 1, total))
        end(i) == Max2(start(i), Min2(((i + 1) * total) \div n, total))
    IN [i \in 1..n |->
          <<IF i = 1 THEN 1 ELSE start(i - 1),
            IF i = n THEN total ELSE end(i - 1)>>]

\* lines 284-310 from section at on, the next ordinal being ordinal
RECURSIVE OutSections(_, _, _, _)
OutSections(secs, at, ordinal, defaults) ==
    IF at > Len(secs) THEN <<>>
    ELSE LET x == secs[at]
             given == x.page_start # NoPage /\ x.page_end # NoPage
             ps == IF given THEN x.page_start ELSE defaults[at][1]
             pe == IF given THEN x.page_end ELSE defaults[at][2]
         IN <<[title |-> IF x.title = <<>> THEN DefaultTitle ELSE x.title,
               page_start |-> ps, page_end |-> pe,
               ordinal_first |-> ordinal,
               items |-> [k \in 1..Len(x.bullets) |->
                            [term |-> x.bullets[k], page |-> ps,
                             ordinal |-> ordinal + k - 1]]]>>
            \o OutSections(secs, at + 1, ordinal + Len(x.bullets), defaults)

\* _template_from_sections
template_from_sections(secs, npages) ==
    LET out == OutSections(secs, 1, 1, even_ranges(Len(secs), npages))
    IN [sections |-> [i \in 1..Len(out) |->
                        [title |-> out[i].title,
                         page_start |-> out[i].page_start,
                         page_end |-> out[i].page_end,
                         items |-> out[i].items]],
        toc |-> [i \in 1..Len(out) |->
                   [title |-> out[i].title,
                    page_start |-> out[i].page_start,
                    page_end |-> out[i].page_end,
                    ordinal_first |-> out[i].ordinal_first]],
        pages |-> Max2(1, npages)]

\* the lists of chunks run_extraction returns: chunk i starts on page i
ExtractedChoices ==
    UNION {{[i \in 1..n |-> [page_start |-> i, title |-> f[i]]] :
              f \in [1..n -> HintTitles]} : n \in 0..MaxChunks}

\* line 222
HintOf(c) == IF Strip(c.title) # <<>> THEN c.title ELSE <<>>

\* line 210
Parallel(ext) ==
    ext # <<>> /\ (Len(ext) > 1 \/ \E i \in 1..Len(ext) : ext[i].title # <<>>)

InitTemplate ==
    /\ task = "template"
    /\ IdleKey /\ IdleAnalyze /\ IdlePipe /\ IdleDeck
    /\ t_pc = "start"
    /\ t_path \in BOOLEAN
    /\ t_raises \in BOOLEAN
    /\ t_chunks \in ExtractedChoices
    /\ t_llm = "any"
    /\ t_pages = 0 /\ t_extracted = <<>>
    /\ futs = <<>> /\ t_done = <<>> /\ t_next = 0 /\ t_results = <<>>
    /\ merged = <<>> /\ template = NoTemplate /\ t_calls = 0
    /\ er_n = 0 /\ er_total = 0 /\ er_out = <<>>

erVars == <<er_n, er_total, er_out>>
\* more chunks than the pool has workers, at a time when every request
\* fails
InitManyChunks ==
    /\ task = "template"
    /\ IdleKey /\ IdleAnalyze /\ IdlePipe /\ IdleDeck
    /\ t_pc = "start"
    /\ t_path = TRUE
    /\ t_raises = FALSE
    /\ t_chunks = [i \in 1..(MaxWorkers + 1) |->
                     [page_start |-> i, title |-> <<>>]]
    /\ t_llm = "down"
    /\ t_pages = 0 /\ t_extracted = <<>>
    /\ futs = <<>> /\ t_done = <<>> /\ t_next = 0 /\ t_results = <<>>
    /\ merged = <<>> /\ template = NoTemplate /\ t_calls = 0
    /\ er_n = 0 /\ er_total = 0 /\ er_out = <<>>

\* the replies of this run
WorkerReplies(hint) ==
    IF t_llm = "down" THEN {[kind |-> "error", sections |-> <<>>]}
    ELSE RawReplies(hint)

tplFrame == <<task, keyVars, anVars, pipeVars, gdVars, erVars>>

\* lines 198-210: _concat, run_extraction and the choice of the branch
TplStart ==
    /\ task = "template" /\ t_pc = "start"
    /\ t_pages' = Max2(1, Len(t_chunks))
    /\ t_extracted' = IF t_path /\ ~t_raises THEN t_chunks ELSE <<>>
    /\ t_pc' = IF Parallel(t_extracted') THEN "submit" ELSE "single"
    /\ UNCHANGED <<t_path, t_raises, t_chunks, t_llm, futs, t_done, t_next,
                   t_results, merged, template, t_calls>>
    /\ UNCHANGED tplFrame

\* lines 239-246: one call on the whole text
TplSingle ==
    /\ task = "template" /\ t_pc = "single"
    /\ \E reply \in WorkerReplies(<<>>) :
          /\ reply.kind # "crash"
          /\ LET secs == ask_llm_sections(reply, <<>>, 0)
             IN /\ t_results' = (0 :> [kind |-> reply.kind, secs |-> secs])
                /\ template' = template_from_sections(secs, t_pages)
    /\ t_calls' = t_calls + 1
    /\ t_pc' = "done"
    /\ UNCHANGED <<t_path, t_raises, t_chunks, t_llm, t_pages, t_extracted, futs,
                   t_done, t_next, merged>>
    /\ UNCHANGED tplFrame

\* lines 216-224: every chunk is submitted
TplSubmit ==
    /\ task = "template" /\ t_pc = "submit"
    /\ futs' = [i \in 1..Len(t_extracted) |-> "queued"]
    /\ t_next' = 1
    /\ t_pc' = "collect"
    /\ UNCHANGED <<t_path, t_raises, t_chunks, t_llm, t_pages, t_extracted, t_done,
                   t_results, merged, template, t_calls>>
    /\ UNCHANGED tplFrame

Running == {i \in 1..Len(futs) : futs[i] = "running"}

\* a pool with a thread for every chunk
PoolUnbounded(n) == n

\* line 216: max_workers=min(6, len(extracted))
PoolSize(n) == Min2(MaxWorkers, n)

\* a free worker takes the oldest queued call
FutStart(i) ==
    /\ task = "template" /\ t_pc = "collect"
    /\ futs[i] = "queued"
    /\ \A j \in 1..(i - 1) : futs[j] # "queued"
    /\ Cardinality(Running) < PoolSize(Len(t_extracted))
    /\ futs' = [futs EXCEPT ![i] = "running"]
    /\ t_calls' = t_calls + 1
    /\ UNCHANGED <<t_pc, t_path, t_raises, t_chunks, t_llm, t_pages, t_extracted,
                   t_done, t_next, t_results, merged, template>>
    /\ UNCHANGED tplFrame

\* a worker's call returns
FutDone(i) ==
    /\ task = "template" /\ t_pc = "collect"
    /\ futs[i] = "running"
    /\ futs' = [futs EXCEPT ![i] = "done"]
    /\ t_done' = Append(t_done, i)
    /\ UNCHANGED <<t_pc, t_path, t_raises, t_chunks, t_llm, t_pages, t_extracted,
                   t_next, t_results, merged, template, t_calls>>
    /\ UNCHANGED tplFrame

\* the future taken at position k of the loop, were the results taken as
\* they complete
CollectAsCompleted(k) ==
    IF k <= Len(t_done) THEN t_done[k]
    ELSE CHOOSE i \in 1..Len(futs) : futs[i] # "done"

\* line 225: 'for fut, page_start in futs', the order of submission
CollectIndex(k) == k

\* lines 225-233: fut.result() of the next future, merged into 'merged'
TplCollect ==
    /\ task = "template" /\ t_pc = "collect"
    /\ t_next <= Len(futs)
    /\ LET i == CollectIndex(t_next)
       IN /\ futs[i] = "done"
          /\ \E reply \in WorkerReplies(HintOf(t_extracted[i])) :
                LET secs == ask_llm_sections(reply, HintOf(t_extracted[i]), i)
                    paged == [j \in 1..Len(secs) |->
                                [secs[j] EXCEPT
                                   !.page_start = t_extracted[i].page_start,
                                   !.page_end = NoPage]]
                IN /\ t_results' = (i :> [kind |-> reply.kind, secs |-> secs])
                                      @@ t_results
                   /\ merged' = IF reply.kind = "crash" THEN merged
                                ELSE merge_sections(merged, paged)
    /\ t_next' = t_next + 1
    /\ UNCHANGED <<t_pc, t_path, t_raises, t_chunks, t_llm, t_pages, t_extracted,
                   futs, t_done, template, t_calls>>
    /\ UNCHANGED tplFrame

\* line 235
TplReturn ==
    /\ task = "template" /\ t_pc = "collect"
    /\ t_next > Len(futs)
    /\ template' = template_from_sections(merged, t_pages)
    /\ t_pc' = "done"
    /\ UNCHANGED <<t_path, t_raises, t_chunks, t_llm, t_pages, t_extracted, futs,
                   t_done, t_next, t_results, merged, t_calls>>
    /\ UNCHANGED tplFrame

MaxRangeN == 4       \* the most sections _even_ranges is called with
MaxRangePages == 4   \* the most pages

\* _even_ranges is about to be called on its own
InitRanges ==
    /\ task = "ranges"
    /\ IdleKey /\ IdleAnalyze /\ IdlePipe /\ IdleDeck
    /\ t_pc = "idle" /\ t_path = FALSE /\ t_raises = FALSE
    /\ t_chunks = <<>> /\ t_llm = "any" /\ t_pages = 0 /\ t_extracted = <<>>
    /\ futs = <<>> /\ t_done = <<>> /\ t_next = 0 /\ t_results = <<>>
    /\ merged = <<>> /\ template = NoTemplate /\ t_calls = 0
    /\ er_n \in 0..MaxRangeN
    /\ er_total \in 0..MaxRangePages
    /\ er_out = <<>>

\* _even_ranges(n, total_pages) is called
EvenRanges ==
    /\ task = "ranges"
    /\ er_out' = even_ranges(er_n, er_total)
    /\ task' = "ranged"
    /\ UNCHANGED <<t_pc, t_path, t_raises, t_chunks, t_llm, t_pages, t_extracted,
                   futs, t_done, t_next, t_results, merged, template,
                   t_calls, er_n, er_total>>
    /\ UNCHANGED <<keyVars, anVars, pipeVars, gdVars>>

NextTemplate ==
    \/ EvenRanges
    \/ TplStart \/ TplSingle \/ TplSubmit
    \/ \E i \in 1..Len(futs) : FutStart(i)
    \/ \E i \in 1..Len(futs) : FutDone(i)
    \/ TplCollect \/ TplReturn

SpecTemplate ==
    (InitTemplate \/ InitManyChunks \/ InitRanges) /\ [][NextTemplate]_vars

\* the items of a template in the order they are emitted
RECURSIVE ItemsOf(_)
ItemsOf(secs) ==
    IF secs = <<>> THEN <<>> ELSE Head(secs).items \o ItemsOf(Tail(secs))

\* the sections of the futures 1..n merged in the order of submission
RECURSIVE MergedInOrder(_)
MergedInOrder(n) ==
    IF n = 0 THEN <<>>
    ELSE merge_sections(MergedInOrder(n - 1), t_results[n].secs)

C25_EvenRangesCover ==
    (task = "ranged" /\ er_n >= 1 /\ er_total >= 1) =>
        /\ Len(er_out) = er_n
        /\ er_out[1][1] = 1
        /\ er_out[er_n][2] = er_total
        /\ \A i \in 1..er_n :
              1 <= er_out[i][1] /\ er_out[i][1] <= er_out[i][2]
                /\ er_out[i][2] <= er_total
        /\ \A i \in 1..(er_n - 1) :
              er_out[i + 1][1] \in {er_out[i][2], er_out[i][2] + 1}
        /\ er_n <= er_total =>
              \A i \in 1..(er_n - 1) : er_out[i + 1][1] = er_out[i][2] + 1

\* three pages in two ranges
C25_Witness ==
    /\ task = "ranged" /\ er_n = 2 /\ er_total = 3
    /\ er_out = <<<<1, 1>>, <<2, 3>>>>

\* C25 (as stated): for every n >= 1 and P >= 1, n > P included, the n
\* ranges are contiguous, do not overlap and cover [1, P] exactly.
C25_EvenPartition ==
    (task = "ranged" /\ er_n >= 1 /\ er_total >= 1) =>
        /\ Len(er_out) = er_n
        /\ er_out[1][1] = 1
        /\ er_out[er_n][2] = er_total
        /\ \A i \in 1..(er_n - 1) : er_out[i + 1][1] = er_out[i][2] + 1

\* C26: a worker that fails or returns nothing stops no other worker: every
\* future is collected and the sections of all of them are merged; at most
\* min(6, number of chunks) workers run at a time; and the merged list
\* changes only in the steps of the collecting loop.
C26_NoCrossWorkerCancellation ==
    /\ [](task = "template" =>
             Cardinality(Running) <= Min2(MaxWorkers, Len(t_extracted)))
    /\ []((task = "template" /\ t_pc = "done" /\ futs # <<>>) =>
             /\ DOMAIN t_results = 1..Len(futs)
             /\ merged = MergedInOrder(Len(futs))
             /\ \A i \in 1..Len(futs) :
                   \A k \in 1..Len(t_results[i].secs) :
                      \E m \in 1..Len(merged) :
                         Norm(merged[m].title) = Norm(t_results[i].secs[k].title))
    /\ [][merged' # merged => (t_next' = t_next + 1 /\ futs' = futs)]_vars

\* the worker of the first chunk raised and the sections of the second
\* chunk are in the template
C26_Witness ==
    /\ task = "template" /\ t_pc = "done"
    /\ Len(futs) = 2
    /\ t_results[1].kind = "crash"
    /\ t_results[2].secs # <<>>
    /\ Len(template.sections) = Len(t_results[2].secs)
    /\ Len(template.sections) >= 1

\* the places <<chunk, section>> of the collected replies at which a title
\* with the normalised title of t stands
SeenAt(t) ==
    {a \in UNION {{<<c, k>> : k \in 1..Len(t_results[c].secs)} :
                    c \in DOMAIN t_results} :
        Norm(t_results[a[1]].secs[a[2]].title) = Norm(t)}

Before(a, b) == a[1] < b[1] \/ (a[1] = b[1] /\ a[2] < b[2])

FirstSeen(t) == CHOOSE a \in SeenAt(t) : \A b \in SeenAt(t) : a = b \/ Before(a, b)

\* C29: the merged list has no two sections with the same normalised
\* title, every section of it has 5 to 6 bullets, and its sections stand in
\* the order their titles were first seen.
C29_MergedWellFormed ==
    (task = "template" /\ t_pc \in {"collect", "done"}) =>
        /\ \A i, j \in 1..Len(merged) :
              i # j => Norm(merged[i].title) # Norm(merged[j].title)
        /\ \A i \in 1..Len(merged) :
              Len(merged[i].bullets) \in MinBullets..MaxBullets
        /\ \A i, j \in 1..Len(merged) :
              i < j => Before(FirstSeen(merged[i].title),
                              FirstSeen(merged[j].title))

\* two sections, the first filled up to 6 bullets by a later chunk
C29_Witness ==
    /\ task = "template" /\ t_pc = "done"
    /\ Len(merged) = 2
    /\ Len(merged[1].bullets) = MaxBullets
    /\ merged[1].bullets[1].chunk = 1
    /\ merged[1].bullets[MaxBullets].chunk = 2

\* C30: a section of the parallel path has in the template the page_start
\* of the chunk it was made from.
C30_PageStartKept ==
    (task = "template" /\ t_pc = "done" /\ futs # <<>>) =>
        \A x \in 1..Len(template.sections) :
            template.sections[x].page_start =
                t_extracted[template.sections[x].items[1].term.chunk].page_start

\* C12: every item has ordinal = section_index * 10000 + position within
\* the section (indices counted from 0 or from 1).
C12_OrdinalEncodesSection ==
    (task = "template" /\ t_pc = "done") =>
        \E sb \in {0, 1}, pb \in {0, 1} :
            \A x \in 1..Len(template.sections) :
                \A k \in 1..Len(template.sections[x].items) :
                    template.sections[x].items[k].ordinal
                        = (x - 1 + sb) * 10000 + (k - 1 + pb)

\* C13: when run_extraction fails the call fails: no LLM request is made
\* and no template is returned.
C13_ExtractionFailureFailsCall ==
    (task = "template" /\ t_path /\ t_raises) =>
        /\ t_calls = 0
        /\ template = NoTemplate
        /\ t_pc # "done"

(***************************************************************************)
(* The persistence loop of generate_deck (flashcards/views.py lines        *)
(* 181-205) over a list returned by cards_from_document.                   *)
(***************************************************************************)
\* views.py lines 183-204; st = [objs, seen]
RECURSIVE PersistAll(_, _)
PersistAll(cs, st) ==
    IF cs = <<>> THEN st
    ELSE LET c == Head(cs)
             f == Strip(c.front)
             b == Strip(c.back)
             k == IF c.card_key # <<>> THEN c.card_key
                  ELSE build_card_key(f, b)
         IN PersistAll(Tail(cs),
              IF f = <<>> \/ b = <<>> \/ k = <<>> \/ k \in st.seen
              THEN st
              ELSE [objs |-> Append(st.objs,
                                    [front |-> f, back |-> b, page |-> c.page,
                                     section |-> c.section, card_key |-> k,
                                     \* models.py line 33: the default
                                     ordinal |-> 0]),
                    seen |-> st.seen \cup {k}])

\* the rows handed to Card.objects.bulk_create (line 205)
PersistLoop(cs) == PersistAll(cs, [objs |-> <<>>, seen |-> {}]).objs

(***************************************************************************)
(* Properties of cards_from_document and _cards_from_chunk.                *)
(***************************************************************************)
UniqueKeys(cs) ==
    \A i, j \in 1..Len(cs) : i # j => cs[i].card_key # cs[j].card_key

\* C2: every card of the list cards_from_document returns (and of the list
\* it is building) has a card_key no other card of the list has, in every
\* allocation mode and whatever the generation call returned; the same holds
\* for the rows generate_deck's persistence loop makes of a returned list.
C2_UniqueCardKeys ==
    /\ task = "cards" => UniqueKeys(cards)
    /\ (task = "cards" /\ pc = "done")
          => UniqueKeys(result) /\ UniqueKeys(PersistLoop(result))

\* a run has returned two cards and both are persisted
C2_Witness ==
    /\ task = "cards" /\ pc = "done"
    /\ Len(result) >= 2 /\ Len(PersistLoop(result)) >= 2

C7_NeverMoreThanAsked ==
    task = "cards" =>
        /\ need >= 0
        /\ cfc.have_len <= cfc.max_cards
        /\ pc = "cfc_return" =>
              /\ \A ret \in CfcResults(cfc) :
                    /\ Len(ret) <= cfc.max_cards
                    /\ Mode # "legacy" => Kept(ret).added <= need
              /\ Mode # "legacy" => need <= entries[idx].quota
              /\ Mode = "legacy" => cfc.max_cards = entries[idx].quota

\* the generation call returned more cards than the whole target and
\* _cards_from_chunk is about to return a full list
C7_Witness ==
    /\ task = "cards" /\ pc = "cfc_return"
    /\ cfc.got_len > cfc.max_cards
    /\ cfc.have_len = cfc.max_cards
    /\ \E ret \in CfcResults(cfc) : Len(ret) = cfc.max_cards

\* C24: a quota above max_cards_per_chunk is cut to it and nothing is given
\* to another entry: the quotas of the entries stay as they are, each entry
\* starts with min(quota, ceiling), and the cards accepted never exceed the
\* sum of the quotas cut one by one.
C24_CutNotReassigned ==
    /\ [][(task = "cards" /\ pc = "entry" /\ pc' = "batch") =>
             /\ need' = Min2(entries[idx].quota, max_cards_per_chunk)
             /\ entries' = entries]_vars
    /\ []((task = "cards" /\ Mode # "legacy" /\ pc \notin {"start", "raised"}) =>
             Len(cards) <= SumSeq([k \in 1..Len(entries) |->
                                     Min2(Max2(entries[k].quota, 0),
                                          max_cards_per_chunk)]))

\* total_cards = 2 over one chunk with a ceiling of 1: one card is returned
C24_Witness ==
    /\ task = "cards" /\ pc = "done"
    /\ Mode = "global" /\ Len(chunks) = 1
    /\ total_cards = 2 /\ max_cards_per_chunk = 1
    /\ entries[1].quota = 2
    /\ Len(result) = 1

\* the cards of cs whose section field is sec
CardsOfSection(cs, sec) == {k \in 1..Len(cs) : cs[k].section = sec}

\* C28: at every point of cards_from_document and in its result, a section
\* with an entry in section_caps has at most that many accepted cards,
\* whatever sections the generation call names.
C28_SectionCapsHold ==
    task = "cards" =>
        \A sec \in DOMAIN section_caps :
            /\ Cardinality(CardsOfSection(cards, sec)) <= section_caps[sec]
            /\ Cardinality(CardsOfSection(result, sec)) <= section_caps[sec]

\* a branch that does not size its requests by the caps: S1 is full after
\* one card and the second card asked for is not in the result
C28_Witness ==
    /\ task = "cards" /\ pc = "done"
    /\ Mode = "global" /\ total_cards = 2 /\ Len(chunks) = 1
    /\ max_cards_per_chunk > 1
    /\ "S1" \in DOMAIN section_caps
    /\ Cardinality(CardsOfSection(result, "S1")) = section_caps["S1"]
    /\ Len(result) = 1

\* the target of a one-card-per-call run
Target == IF total_cards # NoTotal THEN total_cards ELSE max_cards_per_chunk

DistinctContent(cs) ==
    \A i, j \in 1..Len(cs) :
        i # j => <<cs[i].front, cs[i].back>> # <<cs[j].front, cs[j].back>>

\* C14: when every generation call returns exactly one card with content of
\* its own, a target of t cards from a one-section document (t = 5 included)
\* gives exactly t distinct cards after exactly t generation calls:
\* _cards_from_chunk(max_cards = t) makes t requests and returns t cards, and
\* cards_from_document with one chunk and total_cards = t returns t cards
\* after t requests.
C14_OneCardPerCall ==
    (task = "cards" /\ llm = "one_unique") =>
        /\ pc = "cfc_return" =>
              /\ cfc.calls = cfc.max_cards
              /\ \A ret \in CfcResults(cfc) :
                    Len(ret) = cfc.max_cards /\ DistinctContent(ret)
        /\ pc = "done" =>
              /\ Len(result) = Target
              /\ calls = Target
              /\ DistinctContent(result) /\ UniqueKeys(result)

\* cards_from_document with one chunk and total_cards = 5 has returned 5
\* cards after 5 requests
C14_Witness ==
    /\ task = "cards" /\ llm = "one_unique" /\ pc = "done"
    /\ total_cards = 5 /\ Len(chunks) = 1
    /\ Len(result) = 5 /\ calls = 5

\* C18: every request to the generation call asks for 1 to 3 cards, whatever
\* the target, the quotas and the section caps.
C18_RequestsOfOneToThree ==
    task = "cards" =>
        /\ cfc.calls > 0 => cfc.asked \in 1..BatchSize
        /\ (pc = "cfc_loop" /\ cfc.want > 0)
              => BatchOf(cfc.want) \in 1..BatchSize

\* a target above 3 has been asked for as a request of 3
C18_Witness ==
    /\ task = "cards" /\ cfc.calls > 0
    /\ cfc.max_cards > BatchSize /\ cfc.asked = BatchSize

\* C19: the single-card requests follow a batch request that returned
\* nothing; at most 'batch' of them are made, each adds at most one card, and
\* _cards_from_chunk gives up short of its target only when all of them
\* returned nothing.
C19_SingleCardFallback ==
    /\ [](task = "cards" =>
            /\ pc = "cfc_singles" =>
                  /\ cfc.singles_left \in 1..cfc.batch
                  /\ cfc.singles_ok <= cfc.batch - cfc.singles_left
                  /\ cfc.singles_left = cfc.batch => cfc.got_len = 0
            /\ (pc = "cfc_return" /\ cfc.have_len < cfc.max_cards)
                  => /\ cfc.singles_left = 0 /\ cfc.singles_ok = 0
                     /\ cfc.asked = 1 /\ cfc.got_len = 0)
    /\ [][(task = "cards" /\ pc = "cfc_singles" /\ pc' # "raised")
            => /\ cfc'.asked = 1
               /\ cfc'.have_len - cfc.have_len \in {0, 1}
               /\ cfc'.have_len - cfc.have_len = cfc'.singles_ok - cfc.singles_ok
               /\ cfc'.singles_left = cfc.singles_left - 1]_vars

\* a batch request of two or more returned nothing, every single-card request
\* after it returned nothing, and _cards_from_chunk gives up
C19_Witness ==
    /\ task = "cards" /\ pc = "cfc_return"
    /\ cfc.have_len < cfc.max_cards
    /\ cfc.batch >= 2 /\ cfc.calls >= 1 + cfc.batch
    /\ cfc.singles_left = 0 /\ cfc.singles_ok = 0

\* the most requests one _cards_from_chunk call with target t can make: every
\* pass of its loop with w cards wanted makes 1 + min(3, w) requests at most
\* and either adds a card or is the last
RECURSIVE CallBound(_)
CallBound(t) == IF t <= 0 THEN 0 ELSE 1 + BatchOf(t) + CallBound(t - 1)

\* C20: the synthesis loops terminate for every behaviour of the generation
\* call: every run of cards_from_document returns (or is left by an
\* exception), the remaining need of an entry and the cards wanted by
\* _cards_from_chunk never grow, and a _cards_from_chunk call with target t
\* makes at most CallBound(t) requests.
C20_LoopsTerminate ==
    /\ <>(pc \in {"done", "raised"})
    /\ [](task = "cards" => cfc.calls <= CallBound(cfc.max_cards))
    /\ [][(task = "cards" /\ pc \in {"cfc_loop", "cfc_singles"} /\ pc' # "raised")
            => cfc'.want <= cfc.want]_vars
    /\ [][(task = "cards" /\ pc = "cfc_return" /\ Mode # "legacy")
            => \/ need' < need /\ Len(cards') > Len(cards)
               \/ pc' = "entry"]_vars

\* a _cards_from_chunk call has made as many requests as its target allows
C20_Witness ==
    /\ task = "cards" /\ pc = "cfc_return"
    /\ cfc.max_cards >= 2
    /\ cfc.calls = CallBound(cfc.max_cards)

\* C8: a failure of the generation call counts as zero cards of that
\* attempt and never leaves _cards_from_chunk: cards_from_document is never
\* left by an exception of the generation call.
C8_GenerationFailureContained ==
    task = "cards" => ~(pc = "raised" /\ error = "generation")

\* C9: whenever total_cards is given (0 included), cards_from_document
\* returns at most total_cards cards, in every allocation mode.
C9_TotalCeiling ==
    (task = "cards" /\ pc = "done" /\ total_cards # NoTotal)
        => Len(result) <= total_cards

\* C10: no card with an empty or missing front or back is in the list
\* cards_from_document returns, and none is among the persisted rows.
C10_EmptyCardsDropped ==
    (task = "cards" /\ pc = "done") =>
        /\ \A k \in 1..Len(result) :
              result[k].front # <<>> /\ result[k].back # <<>>
        /\ \A k \in 1..Len(PersistLoop(result)) :
              /\ PersistLoop(result)[k].front # <<>>
              /\ PersistLoop(result)[k].back # <<>>

====
